---- MODULE Spec2Model ----
(***************************************************************************)
(* Model of the origami puzzle core: PuzzleManager (puzzle.js) and         *)
(* FoldingEngine (folding.js).                                             *)
(*                                                                         *)
(* Coordinates are exact integers in units of half an epsilon: the code's  *)
(* epsilon 0.001 is 2 units, the length 1.0 is 2000 units.  Crease lines   *)
(* are axis-parallel or diagonal, for which the reflection of the code     *)
(*   v' = v - 2*dist*n,  n = (-dy, dx)/len,  dist = v.n - p1.n             *)
(* has an exact integer value; floating round-off is not modelled.         *)
(***************************************************************************)
EXTENDS Integers, Sequences, FiniteSets, TLC

VARIABLES
    puzzleData,      \* PuzzleManager.puzzleData
    pmInitialState,  \* PuzzleManager.initialState
    puzzleManager,   \* FoldingEngine.puzzleManager is set (not null)
    initialState,    \* FoldingEngine.initialState
    graph,           \* FoldingEngine.graph, the live mesh
    history,         \* FoldingEngine.history
    container,       \* FoldingEngine.container is an element (not null)
    outcome,         \* the last call: its name, its argument, how it ended
    pre,             \* graph, history and call name before the last call
    same,            \* which stored objects are the object this.graph
    run,             \* folds and undos counted since a fresh initialization
    app              \* the page of app.js: the load, the buttons, the listeners

vars == <<puzzleData, pmInitialState, puzzleManager, initialState, graph,
          history, container, outcome, pre, same, run, app>>

----------------------------------------------------------------------------
(* Bounds and units *)

MaxHistory == 3

Epsilon == 2

\* 1e-6, the least determinant calculateAffineTransform divides by, in
\* squared coordinate units (0.0005 * 0.0005)
DenEpsilon == 4

One == 1000 * Epsilon

----------------------------------------------------------------------------
(* JavaScript values *)

Null == [type |-> "null"]

EmptyObject == [type |-> "object"]

HasVerticesCoords(g) == "vertices_coords" \in DOMAIN g

\* JSON.parse(JSON.stringify(a)) of an array of scalars, of an array of such
\* arrays, and of a value of the engine (null, {} or a mesh): the value is
\* rebuilt element by element and key by key.
JsonCopyArray(a) == [i \in DOMAIN a |-> a[i]]

JsonCopyNested(a) == [i \in DOMAIN a |-> JsonCopyArray(a[i])]

JsonCopy(v) ==
    IF v = Null THEN Null
    ELSE IF ~HasVerticesCoords(v) THEN EmptyObject
    ELSE [vertices_coords |-> JsonCopyNested(v.vertices_coords),
          faces_vertices |-> JsonCopyNested(v.faces_vertices),
          faces_classes |-> JsonCopyArray(v.faces_classes),
          faces_flipped |-> JsonCopyArray(v.faces_flipped)]

----------------------------------------------------------------------------
(* Inputs: puzzle definitions, crease lines, fold types *)

Pt(x, y) == <<x * One, y * One>>

\* two unit cells side by side
PuzzleStrip ==
    [name |-> "strip",
     vertices_coords |-> <<Pt(0,0), Pt(1,0), Pt(2,0), Pt(0,1), Pt(1,1), Pt(2,1)>>,
     faces_vertices |-> << <<0,1,4,3>>, <<1,2,5,4>> >>,
     faces_classes |-> <<"image", "color">>]

\* one unit cell split along its diagonal into two triangles
PuzzleTriangles ==
    [name |-> "triangles",
     vertices_coords |-> <<Pt(0,0), Pt(1,0), Pt(1,1), Pt(0,1)>>,
     faces_vertices |-> << <<0,1,2>>, <<0,2,3>> >>,
     faces_classes |-> <<"image", "color">>]

Puzzles == {PuzzleStrip, PuzzleTriangles}

Line(a, b) == [p1 |-> a, p2 |-> b]

Creases ==
    { Line(Pt(1,0), Pt(1,1)),      \* x = 1, the side x < 1 moves
      Line(Pt(1,1), Pt(1,0)),      \* x = 1, the side x > 1 moves
      Line(Pt(0,2), Pt(0,0)),      \* x = 0, the side x > 0 moves
      Line(Pt(0,0), Pt(0,2)),      \* x = 0, the side x < 0 moves
      Line(Pt(0,0), Pt(1,1)),      \* diagonal, the side above it moves
      Line(Pt(1,1), Pt(0,0)),      \* diagonal, the side below it moves
      Line(Pt(1,1), Pt(1,1)),      \* degenerate, p1 = p2
      Line(<<One - 1, One>>, <<One - 1, 0>>) }
                                   \* x = 0.9995, the side x > 0.9995 moves,
                                   \* x = 1 is within epsilon of the line

FoldTypes == {"valley", "mountain"}

----------------------------------------------------------------------------
(* PuzzleManager *)

Abs(x) == IF x < 0 THEN -x ELSE x

IsDegenerate(line) == line.p1 = line.p2

\* dx, dy of foldGraph divided by their common factor, so that the normal
\* (-dy, dx)/len is NormalInt(line)/sqrt(LenSq(line))
StepOf(line) ==
    LET dx == line.p2[1] - line.p1[1]
        dy == line.p2[2] - line.p1[2]
        m  == IF Abs(dx) > Abs(dy) THEN Abs(dx) ELSE Abs(dy)
    IN  <<dx \div m, dy \div m>>

\* the normal turned the other way, (dy, -dx)
NormalIntOpposite(line) == <<StepOf(line)[2], -StepOf(line)[1]>>

NormalInt(line) == <<-StepOf(line)[2], StepOf(line)[1]>>

LenSq(line) == StepOf(line)[1] * StepOf(line)[1] + StepOf(line)[2] * StepOf(line)[2]

\* dist * sqrt(LenSq(line)), where dist = v[0]*nx + v[1]*ny - d and
\* d = p1.x*nx + p1.y*ny
DistNum(v, line) ==
    LET n == NormalInt(line)
        d == line.p1[1] * n[1] + line.p1[2] * n[2]
    IN  v[1] * n[1] + v[2] * n[2] - d

\* dist > 0, the epsilon left out
IsActiveNoEpsilon(v, line) ==
    /\ ~IsDegenerate(line)
    /\ DistNum(v, line) > 0

\* |dist| > 0.001, the vertices of both sides
IsActiveEitherSide(v, line) ==
    /\ ~IsDegenerate(line)
    /\ LET num == Abs(DistNum(v, line))
       IN  \/ num >= 2 * Epsilon
           \/ num * num > Epsilon * Epsilon * LenSq(line)

\* dist > 0.001; with a zero-length line dist is NaN and the test is false
IsActive(v, line) ==
    /\ ~IsDegenerate(line)
    /\ LET num == DistNum(v, line)
       IN  /\ num > 0
           /\ \/ num >= 2 * Epsilon
              \/ num * num > Epsilon * Epsilon * LenSq(line)

\* the indices (from 0) of the vertices the fold moves
verticesToMove(g, line) ==
    {i \in 0..(Len(g.vertices_coords) - 1) : IsActive(g.vertices_coords[i + 1], line)}

\* v - dist*n, the factor 2 left out
ReflectHalf(v, line) ==
    LET n   == NormalInt(line)
        num == DistNum(v, line)
    IN  <<v[1] - (num * n[1]) \div LenSq(line),
          v[2] - (num * n[2]) \div LenSq(line)>>

\* v - 2*dist*n
Reflect(v, line) ==
    LET n   == NormalInt(line)
        num == DistNum(v, line)
    IN  <<v[1] - (2 * num * n[1]) \div LenSq(line),
          v[2] - (2 * num * n[2]) \div LenSq(line)>>

\* some instead of every
allMovedSome(face, moved) == \E k \in DOMAIN face : face[k] \in moved

allMoved(face, moved) == \A k \in DOMAIN face : face[k] \in moved

\* foldGraph with the test on allMoved inverted
foldGraphInverted(g, line, type) ==
    LET moved == verticesToMove(g, line)
    IN  [vertices_coords |->
             [i \in DOMAIN g.vertices_coords |->
                 IF (i - 1) \in moved
                 THEN Reflect(g.vertices_coords[i], line)
                 ELSE g.vertices_coords[i]],
         faces_vertices |-> g.faces_vertices,
         faces_classes |-> g.faces_classes,
         faces_flipped |->
             [i \in DOMAIN g.faces_vertices |->
                 IF allMoved(g.faces_vertices[i], moved)
                 THEN g.faces_flipped[i]
                 ELSE ~g.faces_flipped[i]]]

\* foldGraph that also swaps the class tag of a face it flips
foldGraphSwapClass(g, line, type) ==
    LET moved == verticesToMove(g, line)
    IN  [vertices_coords |->
             [i \in DOMAIN g.vertices_coords |->
                 IF (i - 1) \in moved
                 THEN Reflect(g.vertices_coords[i], line)
                 ELSE g.vertices_coords[i]],
         faces_vertices |-> g.faces_vertices,
         faces_classes |->
             [i \in DOMAIN g.faces_vertices |->
                 IF allMoved(g.faces_vertices[i], moved)
                 THEN (IF g.faces_classes[i] = "image" THEN "color" ELSE "image")
                 ELSE g.faces_classes[i]],
         faces_flipped |->
             [i \in DOMAIN g.faces_vertices |->
                 IF allMoved(g.faces_vertices[i], moved)
                 THEN ~g.faces_flipped[i]
                 ELSE g.faces_flipped[i]]]

\* foldGraph that toggles the flags for a valley fold only
foldGraphTyped(g, line, type) ==
    LET moved == verticesToMove(g, line)
    IN  [vertices_coords |->
             [i \in DOMAIN g.vertices_coords |->
                 IF (i - 1) \in moved
                 THEN Reflect(g.vertices_coords[i], line)
                 ELSE g.vertices_coords[i]],
         faces_vertices |-> g.faces_vertices,
         faces_classes |-> g.faces_classes,
         faces_flipped |->
             [i \in DOMAIN g.faces_vertices |->
                 IF type = "valley" /\ allMoved(g.faces_vertices[i], moved)
                 THEN ~g.faces_flipped[i]
                 ELSE g.faces_flipped[i]]]

\* foldGraph that sets the flag of a face instead of toggling it
foldGraphSetFlag(g, line, type) ==
    LET moved == verticesToMove(g, line)
    IN  [vertices_coords |->
             [i \in DOMAIN g.vertices_coords |->
                 IF (i - 1) \in moved
                 THEN Reflect(g.vertices_coords[i], line)
                 ELSE g.vertices_coords[i]],
         faces_vertices |-> g.faces_vertices,
         faces_classes |-> g.faces_classes,
         faces_flipped |->
             [i \in DOMAIN g.faces_vertices |->
                 allMoved(g.faces_vertices[i], moved) \/ g.faces_flipped[i]]]

foldGraph(g, line, type) ==
    LET moved   == verticesToMove(g, line)
        flipped == IF "faces_flipped" \in DOMAIN g
                   THEN g.faces_flipped
                   ELSE [i \in DOMAIN g.faces_vertices |-> FALSE]
    IN  [vertices_coords |->
             [i \in DOMAIN g.vertices_coords |->
                 IF (i - 1) \in moved
                 THEN Reflect(g.vertices_coords[i], line)
                 ELSE g.vertices_coords[i]],
         faces_vertices |-> g.faces_vertices,
         faces_classes |-> g.faces_classes,
         faces_flipped |->
             [i \in DOMAIN g.faces_vertices |->
                 IF allMoved(g.faces_vertices[i], moved)
                 THEN ~flipped[i]
                 ELSE flipped[i]]]

\* loadPuzzle that makes one flag per vertex instead of one per face
InitialStateOfFlagPerVertex(data) ==
    [vertices_coords |-> JsonCopyNested(data.vertices_coords),
     faces_vertices |-> JsonCopyNested(data.faces_vertices),
     faces_classes |-> JsonCopyArray(data.faces_classes),
     faces_flipped |-> [i \in DOMAIN data.vertices_coords |-> FALSE]]

\* the state loadPuzzle builds from the puzzle definition
InitialStateOf(data) ==
    [vertices_coords |-> JsonCopyNested(data.vertices_coords),
     faces_vertices |-> JsonCopyNested(data.faces_vertices),
     faces_classes |-> JsonCopyArray(data.faces_classes),
     faces_flipped |-> [i \in DOMAIN data.faces_vertices |-> FALSE]]

getInitialState == pmInitialState

CoordSet(g, c) == {g.vertices_coords[i][c] : i \in DOMAIN g.vertices_coords}

MaxOf(S) == CHOOSE m \in S : \A x \in S : x <= m

MinOf(S) == CHOOSE m \in S : \A x \in S : m <= x

\* validation that also wants every image face unflipped
validateStateImageUp(g) ==
    /\ \/ Len(g.vertices_coords) = 0
       \/ /\ 10 * (MaxOf(CoordSet(g, 1)) - MinOf(CoordSet(g, 1))) < 11 * One
          /\ 10 * (MaxOf(CoordSet(g, 2)) - MinOf(CoordSet(g, 2))) < 11 * One
    /\ \A i \in DOMAIN g.faces_classes :
          g.faces_classes[i] = "image" => ~g.faces_flipped[i]

\* width < 1.1 && height < 1.1; with no vertex both are -Infinity
validateState(g) ==
    \/ Len(g.vertices_coords) = 0
    \/ /\ 10 * (MaxOf(CoordSet(g, 1)) - MinOf(CoordSet(g, 1))) < 11 * One
       /\ 10 * (MaxOf(CoordSet(g, 2)) - MinOf(CoordSet(g, 2))) < 11 * One


----------------------------------------------------------------------------
(* FoldingEngine *)

\* Object identity.  foldGraph changes the object this.graph in place, so a
\* stored reference to that same object changes with it.  same.initialState
\* says that this.initialState (the object the puzzle manager holds too) is
\* the graph object; same.entries holds the history positions that are the
\* graph object.  A JSON copy is a new object, the same as nothing stored.
Fresh == [initialState |-> FALSE, entries |-> {}]

\* the history h after the graph object received the value g in place
WriteThrough(h, g) ==
    [i \in DOMAIN h |-> IF i \in same.entries THEN g ELSE h[i]]

\* canUndo as in the engine iteration that tests length > 0
canUndoAny == Len(history) > 0

canUndo == Len(history) > 1

getCurrentState == graph

\* how render() ends for the graph g: with a graph that has no
\* vertices_coords it calls buildGraphFromManager, which returns {} without a
\* puzzle manager and reads the missing puzzleManager.cells with one.
\* Drawing itself changes no field of the engine.
renderResult(g) ==
    IF container /\ ~HasVerticesCoords(g) /\ puzzleManager
    THEN "TypeError"
    ELSE "undefined"

\* initialize that keeps a graph it already has
initializeStateStale(arg, h) ==
    LET init == IF arg # Null THEN arg ELSE initialState
        g    == IF graph # Null THEN graph
                ELSE JsonCopy(IF init # Null THEN init ELSE EmptyObject)
    IN  [initialState |-> init, graph |-> g, history |-> Append(h, JsonCopy(g)),
         same |-> IF graph # Null
                  THEN [same EXCEPT !.entries = same.entries \cap DOMAIN h]
                  ELSE Fresh]

\* initialize that makes the initial state itself the graph, without
\* copying it
initializeStateShared(arg, h) ==
    LET init == IF arg # Null THEN arg ELSE initialState
        g    == IF init # Null THEN init ELSE EmptyObject
    IN  [initialState |-> init, graph |-> g, history |-> Append(h, JsonCopy(g)),
         same |-> [initialState |-> init # Null, entries |-> {}]]

\* this.initialState, this.graph and this.history after initialize(arg)
\* called with the history h
initializeState(arg, h) ==
    LET init == IF arg # Null THEN arg ELSE initialState
        g    == JsonCopy(IF init # Null THEN init ELSE EmptyObject)
    IN  [initialState |-> init, graph |-> g, history |-> Append(h, JsonCopy(g)),
         same |-> Fresh]

\* undo as in the engine iteration that pops whenever the history is not
\* empty and makes the popped entry the graph
undoStatePopAny ==
    IF Len(history) > 0
    THEN [graph |-> history[Len(history)],
          history |-> SubSeq(history, 1, Len(history) - 1), same |-> Fresh]
    ELSE [graph |-> graph, history |-> history, same |-> same]

\* undo that pops the entry and leaves the graph as it is
undoStateNoRestore ==
    IF Len(history) > 1
    THEN [graph |-> graph, history |-> SubSeq(history, 1, Len(history) - 1),
          same |-> [same EXCEPT !.entries = same.entries \ {Len(history)}]]
    ELSE [graph |-> graph, history |-> history, same |-> same]

\* undo that restores the graph and leaves the entry on the history
undoStateNoPop ==
    IF Len(history) > 1
    THEN [graph |-> JsonCopy(history[Len(history) - 1]), history |-> history,
          same |-> Fresh]
    ELSE [graph |-> graph, history |-> history, same |-> same]

\* undo that makes the new top entry itself the graph, without copying it
undoStateShared ==
    IF Len(history) > 1
    THEN LET h == SubSeq(history, 1, Len(history) - 1)
         IN  [graph |-> h[Len(h)], history |-> h,
              same |-> [initialState |-> FALSE, entries |-> {Len(h)}]]
    ELSE [graph |-> graph, history |-> history, same |-> same]

\* this.graph and this.history after undo()
undoState ==
    IF Len(history) > 1
    THEN LET h == SubSeq(history, 1, Len(history) - 1)
         IN  [graph |-> JsonCopy(h[Len(h)]), history |-> h, same |-> Fresh]
    ELSE [graph |-> graph, history |-> history, same |-> same]

\* executeFold that pushes the snapshot twice
executeFoldStateTwice(line, type) ==
    LET g == foldGraph(graph, line, type)
    IN  [graph |-> g,
         history |-> Append(Append(WriteThrough(history, g), JsonCopy(g)),
                            JsonCopy(g)),
         initialState |-> IF same.initialState THEN g ELSE initialState,
         same |-> same]

\* this.graph, this.history and the initial state object after the fold in
\* place and the push of executeFold
executeFoldState(line, type) ==
    LET g == foldGraph(graph, line, type)
    IN  [graph |-> g,
         history |-> Append(WriteThrough(history, g), JsonCopy(g)),
         initialState |-> IF same.initialState THEN g ELSE initialState,
         same |-> same]

\* the determinant of calculateAffineTransform
AffineDen(src) ==
    src[1][1] * (src[2][2] - src[3][2]) - src[1][2] * (src[2][1] - src[3][1])
        + (src[2][1] * src[3][2] - src[3][1] * src[2][2])

IdentityMatrix == [a |-> 1, b |-> 0, c |-> 0, d |-> 1, e |-> 0, f |-> 0, den |-> 1]

\* the six quotients of calculateAffineTransform before the division: the
\* matrix entry a is the fraction a / den, and so on
AffineQuotients(src, dst) ==
    LET x0 == src[1][1]  y0 == src[1][2]
        x1 == src[2][1]  y1 == src[2][2]
        x2 == src[3][1]  y2 == src[3][2]
        u0 == dst[1][1]  v0 == dst[1][2]
        u1 == dst[2][1]  v1 == dst[2][2]
        u2 == dst[3][1]  v2 == dst[3][2]
    IN  [a |-> u0 * (y1 - y2) - y0 * (u1 - u2) + (u1 * y2 - u2 * y1),
         b |-> v0 * (y1 - y2) - y0 * (v1 - v2) + (v1 * y2 - v2 * y1),
         c |-> x0 * (u1 - u2) - u0 * (x1 - x2) + (x1 * u2 - x2 * u1),
         d |-> x0 * (v1 - v2) - v0 * (x1 - x2) + (x1 * v2 - x2 * v1),
         e |-> x0 * (y1 * u2 - y2 * u1) - y0 * (x1 * u2 - x2 * u1)
                  + (x1 * y2 * u0 - x2 * y1 * u0),
         f |-> x0 * (y1 * v2 - y2 * v1) - y0 * (x1 * v2 - x2 * v1)
                  + (x1 * y2 * v0 - x2 * y1 * v0),
         den |-> AffineDen(src)]

\* calculateAffineTransform with c and d computed with the sign of b
calculateAffineTransformSigns(src, dst) ==
    LET q == AffineQuotients(src, dst)
    IN  IF Abs(AffineDen(src)) < DenEpsilon
        THEN IdentityMatrix
        ELSE [q EXCEPT !.c = -q.c, !.d = -q.d]

\* calculateAffineTransform without the test of the determinant: the
\* quotients by 0 are NaN or infinite
calculateAffineTransformUnguarded(src, dst) == AffineQuotients(src, dst)

\* the matrix calculateAffineTransform returns, each entry a fraction over
\* den
calculateAffineTransform(src, dst) ==
    IF Abs(AffineDen(src)) < DenEpsilon
    THEN IdentityMatrix
    ELSE AffineQuotients(src, dst)

NoArg == [type |-> "undefined"]

Call(op, arg, result) == [op |-> op, arg |-> arg, result |-> result]

Before == [graph |-> graph, history |-> history, op |-> outcome.op]

RunOff == [phase |-> "off", n |-> 0, k |-> 0]

\* a fresh puzzle: one history entry, holding a mesh
RunAfterInit(g, h) ==
    IF Len(h) = 1 /\ HasVerticesCoords(g)
    THEN [phase |-> "folds", n |-> 0, k |-> 0]
    ELSE RunOff

SetPuzzleManager ==
    /\ ~puzzleManager
    /\ puzzleManager' = TRUE
    /\ outcome' = Call("setPuzzleManager", NoArg, "undefined")
    /\ pre' = Before
    /\ UNCHANGED <<app, puzzleData, pmInitialState, initialState, graph, history,
                   container, same, run>>

LoadPuzzle(data) ==
    /\ puzzleData = Null
    /\ puzzleData' = data
    /\ pmInitialState' = InitialStateOf(data)
    /\ outcome' = Call("loadPuzzle", NoArg, "undefined")
    /\ pre' = Before
    /\ UNCHANGED <<app, puzzleManager, initialState, graph, history, container,
                   same, run>>

Initialize(arg) ==
    /\ Len(history) < MaxHistory
    /\ LET s == initializeState(arg, history)
       IN  /\ initialState' = s.initialState
           /\ graph' = s.graph
           /\ history' = s.history
           /\ same' = s.same
           /\ outcome' = Call("initialize", NoArg, renderResult(s.graph))
           /\ run' = RunAfterInit(s.graph, s.history)
    /\ pre' = Before
    /\ UNCHANGED <<app, puzzleData, pmInitialState, puzzleManager, container>>

Undo ==
    /\ graph' = undoState.graph
    /\ history' = undoState.history
    /\ same' = undoState.same
    /\ outcome' = Call("undo", NoArg,
                       IF Len(history) > 1 THEN renderResult(undoState.graph)
                                           ELSE "undefined")
    /\ pre' = Before
    /\ run' = IF run.phase \in {"folds", "undos"} /\ run.n >= 1 /\ run.k < run.n
              THEN [run EXCEPT !.phase = "undos", !.k = run.k + 1]
              ELSE RunOff
    /\ UNCHANGED <<app, puzzleData, pmInitialState, puzzleManager, initialState,
                   container>>

ExecuteFold(line, type) ==
    /\ Len(history) < MaxHistory
    /\ pre' = Before
    /\ IF ~puzzleManager
       THEN /\ outcome' = Call("executeFold", line, "undefined")
            /\ UNCHANGED <<graph, history, initialState, pmInitialState,
                           same, run>>
       ELSE IF ~HasVerticesCoords(graph)
       THEN /\ outcome' = Call("executeFold", line, "TypeError")
            /\ UNCHANGED <<graph, history, initialState, pmInitialState,
                           same, run>>
       ELSE LET s == executeFoldState(line, type)
            IN  /\ graph' = s.graph
                /\ history' = s.history
                /\ initialState' = s.initialState
                /\ pmInitialState' = IF same.initialState THEN s.initialState
                                                          ELSE pmInitialState
                /\ same' = s.same
                /\ outcome' = Call("executeFold", line, "undefined")
                /\ run' = IF run.phase = "folds"
                          THEN [run EXCEPT !.n = run.n + 1]
                          ELSE RunOff
    /\ UNCHANGED <<app, puzzleData, puzzleManager, container>>

Reset ==
    /\ pre' = Before
    /\ IF Len(history) > 0
       THEN LET s == initializeState(IF puzzleManager THEN getInitialState
                                                      ELSE Null, <<>>)
            IN  /\ initialState' = s.initialState
                /\ graph' = s.graph
                /\ history' = s.history
                /\ same' = s.same
                /\ outcome' = Call("reset", NoArg, renderResult(s.graph))
                /\ run' = RunAfterInit(s.graph, s.history)
       ELSE /\ outcome' = Call("reset", NoArg, "undefined")
            /\ UNCHANGED <<initialState, graph, history, same, run>>
    /\ UNCHANGED <<app, puzzleData, pmInitialState, puzzleManager, container>>

\* validation that first moves the live mesh to the origin, in place
ValidateInPlace ==
    /\ pre' = Before
    /\ outcome' = Call("validateState", NoArg,
                       IF ~HasVerticesCoords(getCurrentState) THEN "TypeError"
                       ELSE IF validateState(getCurrentState) THEN "true"
                       ELSE "false")
    /\ graph' = IF HasVerticesCoords(graph) /\ Len(graph.vertices_coords) > 0
                THEN [graph EXCEPT !.vertices_coords =
                         [i \in DOMAIN graph.vertices_coords |->
                             <<graph.vertices_coords[i][1] - MinOf(CoordSet(graph, 1)),
                               graph.vertices_coords[i][2] - MinOf(CoordSet(graph, 2))>>]]
                ELSE graph
    /\ UNCHANGED <<app, puzzleData, pmInitialState, puzzleManager, initialState,
                   history, container, same, run>>

\* puzzleManager.validateState(foldingEngine.getCurrentState())
Validate ==
    /\ pre' = Before
    /\ outcome' = Call("validateState", NoArg,
                       IF ~HasVerticesCoords(getCurrentState) THEN "TypeError"
                       ELSE IF validateState(getCurrentState) THEN "true"
                       ELSE "false")
    /\ UNCHANGED <<app, puzzleData, pmInitialState, puzzleManager, initialState,
                   graph, history, container, same, run>>

NoPoint == [type |-> "null"]

\* the page before the DOMContentLoaded handler has run; the engine on its
\* own is driven with the page left in this state
AppIdle ==
    [pc |-> "start", handlers |-> FALSE, undoDisabled |-> FALSE,
     executeDisabled |-> FALSE, currentFoldType |-> "valley",
     proposedFold |-> Null, svg |-> FALSE, listeners |-> <<>>, timers |-> 0]

Init ==
    /\ puzzleData = Null
    /\ pmInitialState = Null
    /\ puzzleManager = FALSE
    /\ initialState = Null
    /\ graph = Null
    /\ history = <<>>
    /\ container \in BOOLEAN
    /\ outcome = Call("constructor", NoArg, "undefined")
    /\ pre = [graph |-> Null, history |-> <<>>, op |-> "none"]
    /\ same = Fresh
    /\ run = RunOff
    /\ app = AppIdle

Next ==
    \/ SetPuzzleManager
    \/ \E data \in Puzzles : LoadPuzzle(data)
    \/ \E arg \in {Null, getInitialState} : Initialize(arg)
    \/ Undo
    \/ \E line \in Creases, type \in FoldTypes : ExecuteFold(line, type)
    \/ Reset
    \/ Validate

Spec == Init /\ [][Next]_vars

----------------------------------------------------------------------------
(* calculateAffineTransform on its own: it reads no field of the engine    *)
(* and writes none, so it is called once on the engine as constructed      *)

SrcCoords == {0, 1, One}

DstCoords == {0, 3}

Triples(C) == (C \X C) \X (C \X C) \X (C \X C)

CalculateAffineTransform(src, dst) ==
    /\ outcome' = Call("calculateAffineTransform", [src |-> src, dst |-> dst],
                       calculateAffineTransform(src, dst))
    /\ pre' = Before
    /\ UNCHANGED <<app, puzzleData, pmInitialState, puzzleManager, initialState,
                   graph, history, container, same, run>>

NextAffine ==
    /\ outcome.op = "constructor"
    /\ \E src \in Triples(SrcCoords), dst \in Triples(DstCoords) :
          CalculateAffineTransform(src, dst)

SpecAffine == Init /\ [][NextAffine]_vars

----------------------------------------------------------------------------
(* The page: app.js.  The DOMContentLoaded handler is an async function:   *)
(* it runs up to its first await, is resumed when the fetch settles and    *)
(* again when the body is parsed, and then runs to its end.  Every click   *)
(* handler and timer callback is synchronous and is one step.              *)

MaxTimers == 1

MaxListeners == 2

\* the grid points a click on the drawing snaps to
GridPoints == {Pt(1,0), Pt(1,1)}

\* render() seen from the page: with a container the drawing is replaced by
\* a new svg element, which has no listener yet
renderPage(a) ==
    IF container THEN [a EXCEPT !.svg = TRUE, !.listeners = <<>>] ELSE a

\* updateUI(), can being the value of foldingEngine.canUndo()
updateUI(a, can) ==
    [a EXCEPT !.undoDisabled = ~can, !.timers = a.timers + 1]

\* the click listener without the test for two equal points
svgClickAnyPoint(a, k, pt) ==
    LET firstPoint == a.listeners[k]
    IN  IF firstPoint = NoPoint
        THEN [a EXCEPT !.listeners[k] = pt]
        ELSE [a EXCEPT !.proposedFold = Line(firstPoint, pt),
                       !.executeDisabled = FALSE,
                       !.listeners[k] = NoPoint]

\* the click listener number k of the drawing, called with the point pt
svgClick(a, k, pt) ==
    LET firstPoint == a.listeners[k]
    IN  IF firstPoint = NoPoint
        THEN [a EXCEPT !.listeners[k] = pt]
        ELSE IF firstPoint = pt
        THEN a
        ELSE [a EXCEPT !.proposedFold = Line(firstPoint, pt),
                       !.executeDisabled = FALSE,
                       !.listeners[k] = NoPoint]

\* the listeners k, k + 1, ... of the drawing called in turn
RECURSIVE svgClickFrom(_, _, _)
svgClickFrom(a, k, pt) ==
    IF k > Len(a.listeners) THEN a
    ELSE svgClickFrom(svgClick(a, k, pt), k + 1, pt)

\* the handler up to the first await, with the click handlers added before
\* the fetch
DomContentLoadedListening ==
    /\ app.pc = "start"
    /\ puzzleManager' = TRUE
    /\ outcome' = Call("setPuzzleManager", NoArg, "undefined")
    /\ pre' = Before
    /\ app' = [app EXCEPT !.pc = "fetch", !.handlers = TRUE]
    /\ UNCHANGED <<puzzleData, pmInitialState, initialState, graph, history,
                   container, same, run>>

\* the handler up to the first await: the two objects are made and linked
\* and the fetch is started
DomContentLoaded ==
    /\ app.pc = "start"
    /\ puzzleManager' = TRUE
    /\ outcome' = Call("setPuzzleManager", NoArg, "undefined")
    /\ pre' = Before
    /\ app' = [app EXCEPT !.pc = "fetch"]
    /\ UNCHANGED <<puzzleData, pmInitialState, initialState, graph, history,
                   container, same, run>>

\* the fetch is answered; the handler awaits response.json()
FetchResolved ==
    /\ app.pc = "fetch"
    /\ app' = [app EXCEPT !.pc = "json"]
    /\ UNCHANGED <<puzzleData, pmInitialState, puzzleManager, initialState,
                   graph, history, container, outcome, pre, same, run>>

\* the fetch or the parse fails: the catch block, then the click handlers
\* are added
LoadRejected ==
    /\ app.pc \in {"fetch", "json"}
    /\ app' = [app EXCEPT !.pc = "ready", !.handlers = TRUE]
    /\ UNCHANGED <<puzzleData, pmInitialState, puzzleManager, initialState,
                   graph, history, container, outcome, pre, same, run>>

\* the puzzle data arrive: loadPuzzle, initialize, then updateUI(), which
\* reads btnUndo before its declaration has run and so throws into the
\* catch block before it changes anything; then the click handlers are added
LoadResolved(data) ==
    /\ app.pc = "json"
    /\ puzzleData' = data
    /\ pmInitialState' = InitialStateOf(data)
    /\ LET s == initializeState(InitialStateOf(data), history)
       IN  /\ initialState' = s.initialState
           /\ graph' = s.graph
           /\ history' = s.history
           /\ same' = s.same
           /\ outcome' = Call("initialize", NoArg, renderResult(s.graph))
           /\ run' = RunAfterInit(s.graph, s.history)
    /\ pre' = Before
    /\ app' = [renderPage(app) EXCEPT !.pc = "ready", !.handlers = TRUE]
    /\ UNCHANGED <<puzzleManager, container>>

\* btnValley and btnMountain
SelectFoldType(type) ==
    /\ app.handlers
    /\ app' = [app EXCEPT !.currentFoldType = type]
    /\ UNCHANGED <<puzzleData, pmInitialState, puzzleManager, initialState,
                   graph, history, container, outcome, pre, same, run>>

\* btnExecute, which takes no click while it is disabled
ClickExecute ==
    /\ app.handlers
    /\ ~app.executeDisabled
    /\ app.proposedFold # Null
    /\ Len(history) < MaxHistory
    /\ app.timers < MaxTimers
    /\ pre' = Before
    /\ IF ~HasVerticesCoords(graph)
       THEN /\ outcome' = Call("executeFold", app.proposedFold, "TypeError")
            /\ UNCHANGED <<graph, history, initialState, pmInitialState,
                           same, run, app>>
       ELSE LET s == executeFoldState(app.proposedFold, app.currentFoldType)
            IN  /\ graph' = s.graph
                /\ history' = s.history
                /\ initialState' = s.initialState
                /\ pmInitialState' = IF same.initialState THEN s.initialState
                                                          ELSE pmInitialState
                /\ same' = s.same
                /\ outcome' = Call("executeFold", app.proposedFold, "undefined")
                /\ run' = IF run.phase = "folds"
                          THEN [run EXCEPT !.n = run.n + 1]
                          ELSE RunOff
                /\ app' = updateUI([renderPage(app) EXCEPT
                                       !.proposedFold = Null,
                                       !.executeDisabled = TRUE],
                                   Len(s.history) > 1)
    /\ UNCHANGED <<puzzleData, puzzleManager, container>>

\* btnUndo, which takes no click while it is disabled
ClickUndo ==
    /\ app.handlers
    /\ ~app.undoDisabled
    /\ app.timers < MaxTimers
    /\ graph' = undoState.graph
    /\ history' = undoState.history
    /\ same' = undoState.same
    /\ outcome' = Call("undo", NoArg,
                       IF Len(history) > 1 THEN renderResult(undoState.graph)
                                           ELSE "undefined")
    /\ pre' = Before
    /\ run' = IF run.phase \in {"folds", "undos"} /\ run.n >= 1 /\ run.k < run.n
              THEN [run EXCEPT !.phase = "undos", !.k = run.k + 1]
              ELSE RunOff
    /\ app' = updateUI(IF Len(history) > 1 THEN renderPage(app) ELSE app,
                       Len(undoState.history) > 1)
    /\ UNCHANGED <<puzzleData, pmInitialState, puzzleManager, initialState,
                   container>>

\* btnReset
ClickReset ==
    /\ app.handlers
    /\ app.timers < MaxTimers
    /\ pre' = Before
    /\ IF Len(history) > 0
       THEN LET s == initializeState(IF puzzleManager THEN getInitialState
                                                      ELSE Null, <<>>)
            IN  /\ initialState' = s.initialState
                /\ graph' = s.graph
                /\ history' = s.history
                /\ same' = s.same
                /\ outcome' = Call("reset", NoArg, renderResult(s.graph))
                /\ run' = RunAfterInit(s.graph, s.history)
                /\ app' = updateUI(renderPage(app), Len(s.history) > 1)
       ELSE /\ outcome' = Call("reset", NoArg, "undefined")
            /\ app' = updateUI(app, canUndo)
            /\ UNCHANGED <<initialState, graph, history, same, run>>
    /\ UNCHANGED <<puzzleData, pmInitialState, puzzleManager, container>>

\* btnValidate; without a mesh validateState throws and the handler ends
ClickValidate ==
    /\ app.handlers
    /\ pre' = Before
    /\ outcome' = Call("validateState", NoArg,
                       IF ~HasVerticesCoords(getCurrentState) THEN "TypeError"
                       ELSE IF validateState(getCurrentState) THEN "true"
                       ELSE "false")
    /\ UNCHANGED <<puzzleData, pmInitialState, puzzleManager, initialState,
                   graph, history, container, same, run, app>>

\* the timer of updateUI fires: setupInteraction adds one more click
\* listener to the drawing there is now, if there is one
SetupInteraction ==
    /\ app.timers > 0
    /\ app.svg => Len(app.listeners) < MaxListeners
    /\ app' = [app EXCEPT !.timers = app.timers - 1,
                          !.listeners = IF app.svg
                                        THEN Append(app.listeners, NoPoint)
                                        ELSE app.listeners]
    /\ UNCHANGED <<puzzleData, pmInitialState, puzzleManager, initialState,
                   graph, history, container, outcome, pre, same, run>>

\* a click on the drawing, snapped to the grid point pt
ClickSvg(pt) ==
    /\ app.svg
    /\ Len(app.listeners) > 0
    /\ app' = svgClickFrom(app, 1, pt)
    /\ UNCHANGED <<puzzleData, pmInitialState, puzzleManager, initialState,
                   graph, history, container, outcome, pre, same, run>>

\* the page as loaded: the disabled attributes of the two buttons are those
\* of the document
InitApp ==
    /\ puzzleData = Null
    /\ pmInitialState = Null
    /\ puzzleManager = FALSE
    /\ initialState = Null
    /\ graph = Null
    /\ history = <<>>
    /\ container \in BOOLEAN
    /\ outcome = Call("constructor", NoArg, "undefined")
    /\ pre = [graph |-> Null, history |-> <<>>, op |-> "none"]
    /\ same = Fresh
    /\ run = RunOff
    /\ \E u \in BOOLEAN, e \in BOOLEAN :
          app = [AppIdle EXCEPT !.undoDisabled = u, !.executeDisabled = e]

NextApp ==
    \/ DomContentLoaded
    \/ FetchResolved
    \/ LoadRejected
    \/ \E data \in Puzzles : LoadResolved(data)
    \/ \E type \in FoldTypes : SelectFoldType(type)
    \/ ClickExecute
    \/ ClickUndo
    \/ ClickReset
    \/ ClickValidate
    \/ SetupInteraction
    \/ \E pt \in GridPoints : ClickSvg(pt)

SpecApp == InitApp /\ [][NextApp]_vars

----------------------------------------------------------------------------
(* The sheet of 8 by 8 units: 16 cells of 2 by 2 units, folded in half     *)
(* twice onto a target of 4 by 4 units                                     *)

SheetCells == 4

\* vertex (c, r) of the 5 by 5 lattice, numbered row by row from 0
SheetVertex(c, r) == r * (SheetCells + 1) + c

\* the cells that end up on top of a plain cell after the two folds: the
\* right half of the lower rows and the left half of the upper rows
SheetClass(c, r) ==
    IF (2 * c >= SheetCells) # (2 * r >= SheetCells) THEN "image" ELSE "color"

PuzzleSheet ==
    [name |-> "sheet",
     vertices_coords |->
         [k \in 1 .. (SheetCells + 1) * (SheetCells + 1) |->
             Pt(2 * ((k - 1) % (SheetCells + 1)),
                2 * ((k - 1) \div (SheetCells + 1)))],
     faces_vertices |->
         [k \in 1 .. SheetCells * SheetCells |->
             LET c == (k - 1) % SheetCells
                 r == (k - 1) \div SheetCells
             IN  <<SheetVertex(c, r), SheetVertex(c + 1, r),
                   SheetVertex(c + 1, r + 1), SheetVertex(c, r + 1)>>],
     faces_classes |->
         [k \in 1 .. SheetCells * SheetCells |->
             SheetClass((k - 1) % SheetCells, (k - 1) \div SheetCells)]]

\* x = 4, the side x > 4 moves
SheetFoldX == Line(Pt(4,8), Pt(4,0))

\* y = 4, the side y > 4 moves
SheetFoldY == Line(Pt(0,4), Pt(8,4))

SheetCreases == {SheetFoldX, SheetFoldY}

NextScenario ==
    \/ SetPuzzleManager
    \/ LoadPuzzle(PuzzleSheet)
    \/ \E arg \in {Null, getInitialState} : Initialize(arg)
    \/ Undo
    \/ \E line \in SheetCreases, type \in FoldTypes : ExecuteFold(line, type)
    \/ Reset
    \/ Validate

SpecScenario == Init /\ [][NextScenario]_vars


----------------------------------------------------------------------------
(* Properties *)

\* the step is a call executeFold(line, type) that folds: a puzzle manager
\* is attached and the graph is a mesh
FoldStep(line) ==
    /\ outcome'.op = "executeFold"
    /\ outcome'.arg = line
    /\ puzzleManager
    /\ HasVerticesCoords(graph)

\* the last call was an executeFold that folded
Folded ==
    /\ outcome.op = "executeFold"
    /\ Len(history) = Len(pre.history) + 1

DegenerateCreases == {line \in Creases : line.p1 = line.p2}

\* the mesh loadPuzzle built
InitialMesh == InitialStateOf(puzzleData)

\* C1: from a freshly initialized puzzle (one history entry), after n >= 1
\* folds canUndo() is true, it stays true after each of the first n - 1
\* undos, and it is false after the n-th undo.
HistoryDepth ==
    /\ (run.phase = "folds" /\ run.n >= 1) => canUndo
    /\ (run.phase = "undos" /\ run.k < run.n) => canUndo
    /\ (run.phase = "undos" /\ run.k = run.n) => ~canUndo

HistoryDepthWitness ==
    /\ run.phase = "undos"
    /\ run.n >= 2
    /\ run.k = run.n

\* C2: an undo() that follows an executed fold immediately leaves the live
\* mesh and the history as they were before the fold.
UndoRoundTrip ==
    [][(Folded /\ Undo) => (graph' = pre.graph /\ history' = pre.history)]_vars

UndoRoundTripWitness ==
    /\ outcome.op = "undo"
    /\ pre.op = "executeFold"
    /\ Len(pre.history) = Len(history) + 1
    /\ HasVerticesCoords(pre.graph)
    /\ HasVerticesCoords(graph)
    /\ pre.graph.vertices_coords # graph.vertices_coords
    /\ pre.graph.faces_flipped # graph.faces_flipped

\* C3: reset() on an initialized puzzle leaves the live mesh equal to the
\* Initial Mesh and the history with that one entry, so canUndo() is false.
ResetRestoresOrigin ==
    (outcome.op = "reset" /\ Len(pre.history) > 0 /\ initialState # Null)
        => /\ graph = InitialMesh
           /\ history = <<InitialMesh>>
           /\ ~canUndo

ResetRestoresOriginWitness ==
    /\ outcome.op = "reset"
    /\ Len(pre.history) = MaxHistory
    /\ initialState # Null
    /\ pre.graph # graph

\* C4: canUndo() is true exactly when the history holds more than one entry.
CanUndoIffMoreThanOne == canUndo <=> Cardinality(DOMAIN history) > 1

CanUndoIffMoreThanOneWitness ==
    /\ outcome.op = "undo"
    /\ Len(pre.history) = 2
    /\ Len(history) = 1

\* C5: once the engine has been initialized, the history is never empty and
\* its last entry equals the live mesh after every call.
LastEntryIsLiveMesh ==
    graph # Null => (Len(history) >= 1 /\ history[Len(history)] = graph)

LastEntryIsLiveMeshWitness ==
    /\ outcome.op = "undo"
    /\ Len(pre.history) = 3
    /\ HasVerticesCoords(graph)
    /\ graph # InitialMesh

\* C6: an executed fold appends exactly one history entry and changes no
\* other history position.
FoldAppendsOne ==
    [][\A line \in Creases :
          FoldStep(line) => /\ Len(history') = Len(history) + 1
                            /\ SubSeq(history', 1, Len(history)) = history]_vars

FoldAppendsOneWitness ==
    /\ Folded
    /\ Len(history) = 3
    /\ history[3] # history[2]

\* C7: undo() with exactly one history entry changes neither the history nor
\* the live mesh, and does not throw.
UndoAtInitialIsNoOp ==
    [][(Undo /\ Len(history) = 1)
          => /\ history' = history
             /\ graph' = graph
             /\ outcome'.result = "undefined"]_vars

UndoAtInitialIsNoOpWitness ==
    /\ outcome.op = "undo"
    /\ Len(pre.history) = 1
    /\ Len(history) = 1
    /\ HasVerticesCoords(graph)

\* C8: undo() with exactly one history entry ends with an outcome that
\* differs from the outcome of a successful undo (which returns undefined).
NothingToUndoSurfaced ==
    [][(Undo /\ Len(history) = 1) => outcome'.result # "undefined"]_vars

\* C9: a fold with a degenerate crease line (p1 = p2) changes no vertex
\* coordinate and no flipped flag.
DegenerateFoldKeepsMesh ==
    [][\A line \in DegenerateCreases :
          FoldStep(line) => /\ graph'.vertices_coords = graph.vertices_coords
                            /\ graph'.faces_flipped = graph.faces_flipped]_vars

DegenerateFoldKeepsMeshWitness ==
    /\ Folded
    /\ outcome.arg \in DegenerateCreases
    /\ graph = pre.graph
    /\ graph # InitialMesh

\* C10: a fold with a degenerate crease line appends no history entry and
\* leaves canUndo() as it was.
DegenerateFoldRejected ==
    [][\A line \in DegenerateCreases :
          FoldStep(line) => /\ history' = history
                            /\ canUndo' = canUndo]_vars


\* C11: executeFold, undo and initialize leave every history entry that stays
\* stored as it was (reset removes all of them); in particular a fold after
\* an undo leaves the entry the undo restored as it was.
HistoryEntriesIndependent ==
    [][outcome'.op \in {"executeFold", "undo", "initialize"}
          => \A i \in (DOMAIN history) \cap (DOMAIN history') :
                 history'[i] = history[i]]_vars

HistoryEntriesIndependentWitness ==
    /\ Folded
    /\ pre.op = "undo"
    /\ Len(history) >= 2
    /\ history[Len(history) - 1] = pre.graph
    /\ graph # pre.graph


\* C12: once a puzzle is loaded, every call leaves the puzzle definition as
\* it is, and the initial state the puzzle manager returns and the one the
\* engine holds stay equal to the mesh loadPuzzle built from it.
InitialMeshImmutable ==
    [][puzzleData # Null
          => /\ puzzleData' = puzzleData
             /\ pmInitialState' = InitialStateOf(puzzleData)
             /\ initialState' # Null
                   => initialState' = InitialStateOf(puzzleData)]_vars

InitialMeshImmutableWitness ==
    /\ Folded
    /\ Len(history) = MaxHistory
    /\ initialState # Null
    /\ graph.vertices_coords # initialState.vertices_coords
    /\ graph.faces_flipped # initialState.faces_flipped
    /\ initialState = InitialMesh
    /\ getInitialState = InitialMesh


ProperCreases == Creases \ DegenerateCreases

\* the positions (from 1) of the vertices whose coordinates the step changes
MovedNow ==
    {i \in DOMAIN graph.vertices_coords :
        graph'.vertices_coords[i] # graph.vertices_coords[i]}

\* C13: for a non-degenerate crease line and a vertex the fold moves, the
\* signed distance to the line after the fold is the negation of the one
\* before, and the midpoint of the old and the new position is on the line
\* (its doubled coordinates have twice the offset of p1 along the normal).
ReflectionCorrect ==
    [][\A line \in ProperCreases :
          FoldStep(line) =>
             \A i \in MovedNow :
                LET v == graph.vertices_coords[i]
                    w == graph'.vertices_coords[i]
                    n == NormalInt(line)
                IN  /\ DistNum(w, line) = -DistNum(v, line)
                    /\ (v[1] + w[1]) * n[1] + (v[2] + w[2]) * n[2]
                          = 2 * (line.p1[1] * n[1] + line.p1[2] * n[2])]_vars

ReflectionCorrectWitness ==
    /\ Folded
    /\ outcome.arg = Line(Pt(0,0), Pt(1,1))
    /\ \E i \in DOMAIN graph.vertices_coords :
          /\ graph.vertices_coords[i] # pre.graph.vertices_coords[i]
          /\ DistNum(graph.vertices_coords[i], outcome.arg) < -One


\* the signed distance of v to the line, along the normal perp(p2 - p1), is
\* greater than epsilon: DistNum is that distance times sqrt(LenSq)
FartherThanEpsilon(v, line) ==
    /\ DistNum(v, line) > 0
    /\ DistNum(v, line) * DistNum(v, line) > Epsilon * Epsilon * LenSq(line)

\* C14: a fold changes the coordinates of a vertex iff its signed distance
\* to the crease line is greater than epsilon; vertices on the line, within
\* epsilon of it or on the other side keep their coordinates.
FoldMovesActiveSet ==
    [][\A line \in ProperCreases :
          FoldStep(line) =>
             \A i \in DOMAIN graph.vertices_coords :
                (i \in MovedNow) <=> FartherThanEpsilon(graph.vertices_coords[i], line)]_vars

FoldMovesActiveSetWitness ==
    /\ Folded
    /\ outcome.arg \in ProperCreases
    /\ \E i, j, k \in DOMAIN graph.vertices_coords :
          /\ graph.vertices_coords[i] = pre.graph.vertices_coords[i]
          /\ DistNum(pre.graph.vertices_coords[i], outcome.arg) > 0
          /\ graph.vertices_coords[j] # pre.graph.vertices_coords[j]
          /\ graph.vertices_coords[k] = pre.graph.vertices_coords[k]
          /\ DistNum(pre.graph.vertices_coords[k], outcome.arg) < 0


\* the face f has all its vertices among those the step moves
WhollyMovedNow(f) ==
    \A k \in DOMAIN graph.faces_vertices[f] :
        (graph.faces_vertices[f][k] + 1) \in MovedNow

\* C15: a fold toggles the flipped flag of a face iff all vertices of the
\* face are in the active set (the vertices the fold moves); a face with a
\* vertex outside it keeps its flag.
FlipIffAllMoved ==
    [][\A line \in Creases :
          FoldStep(line) =>
             \A f \in DOMAIN graph.faces_vertices :
                (graph'.faces_flipped[f] # graph.faces_flipped[f])
                    <=> WhollyMovedNow(f)]_vars

\* the last fold toggled one face and left another, of which it moved some
\* vertices, untoggled
FlipIffAllMovedWitness ==
    /\ Folded
    /\ \E f, g \in DOMAIN graph.faces_vertices :
          /\ graph.faces_flipped[f] # pre.graph.faces_flipped[f]
          /\ graph.faces_flipped[g] = pre.graph.faces_flipped[g]
          /\ \E k \in DOMAIN graph.faces_vertices[g] :
                graph.vertices_coords[graph.faces_vertices[g][k] + 1]
                    # pre.graph.vertices_coords[graph.faces_vertices[g][k] + 1]


\* twice the signed area of the face f of the mesh g (shoelace sum)
RECURSIVE AreaSum(_, _, _)
AreaSum(g, f, k) ==
    IF k > Len(g.faces_vertices[f]) THEN 0
    ELSE LET face == g.faces_vertices[f]
             a    == g.vertices_coords[face[k] + 1]
             b    == g.vertices_coords[face[(k % Len(face)) + 1] + 1]
         IN  (a[1] \div Epsilon) * (b[2] \div Epsilon)
                 - (b[1] \div Epsilon) * (a[2] \div Epsilon)
                 + AreaSum(g, f, k + 1)

Sign(x) == IF x > 0 THEN 1 ELSE IF x < 0 THEN -1 ELSE 0

Orientation(g, f) == Sign(AreaSum(g, f, 1))

\* no face of g has vertices strictly on both sides of the line
NotBisecting(g, line) ==
    \A f \in DOMAIN g.faces_vertices :
        ~ \E j, k \in DOMAIN g.faces_vertices[f] :
              /\ DistNum(g.vertices_coords[g.faces_vertices[f][j] + 1], line) > 0
              /\ DistNum(g.vertices_coords[g.faces_vertices[f][k] + 1], line) < 0

\* the flipped flag of every face says that its orientation is opposite to
\* the one it has in the Initial Mesh
FlagsTrackOrientation(g) ==
    \A f \in DOMAIN g.faces_vertices :
        g.faces_flipped[f] <=> (Orientation(g, f) = -Orientation(InitialMesh, f))

\* C16: a fold along a line that bisects no face keeps every flipped flag
\* true exactly for the faces reflected an odd number of times, that is for
\* the faces whose orientation is opposite to the one in the Initial Mesh
\* (the flags of a fresh puzzle are all false).
FlippedIffOddReflections ==
    [][\A line \in ProperCreases :
          (/\ FoldStep(line)
           /\ initialState # Null
           /\ NotBisecting(graph, line)
           /\ FlagsTrackOrientation(graph))
              => FlagsTrackOrientation(graph')]_vars


Reverse(line) == Line(line.p2, line.p1)

\* every vertex of the face f has other coordinates in the mesh b than in a
WhollyMovedBetween(a, b, f) ==
    \A k \in DOMAIN a.faces_vertices[f] :
        a.vertices_coords[a.faces_vertices[f][k] + 1]
            # b.vertices_coords[a.faces_vertices[f][k] + 1]

\* C17: when a fold moved all vertices of a face and the next fold, across
\* the same line, again moves all of them, the flipped flag of the face is
\* back at the value it had before the first fold.
FlipPairing ==
    [][\A line \in ProperCreases :
          (/\ Folded
           /\ outcome.arg \in {line, Reverse(line)}
           /\ FoldStep(line))
              => \A f \in DOMAIN graph.faces_vertices :
                    (WhollyMovedBetween(pre.graph, graph, f) /\ WhollyMovedNow(f))
                        => graph'.faces_flipped[f] = pre.graph.faces_flipped[f]]_vars

\* two folds in a row moved all vertices of a face, the second one back to
\* where they were, and the flag changed in between
FlipPairingWitness ==
    /\ Folded
    /\ pre.op = "executeFold"
    /\ Len(history) = 3
    /\ HasVerticesCoords(history[1])
    /\ \E f \in DOMAIN graph.faces_vertices :
          /\ WhollyMovedBetween(history[1], history[2], f)
          /\ WhollyMovedBetween(history[2], history[3], f)
          /\ history[3].vertices_coords = history[1].vertices_coords
          /\ history[2].faces_flipped[f] # history[1].faces_flipped[f]
          /\ history[3].faces_flipped[f] = history[1].faces_flipped[f]


\* C18: for every mesh the engine reaches and every crease line, executing
\* the fold as valley and as mountain gives the same vertex coordinates,
\* flipped flags and history.
FoldTypeIrrelevant ==
    HasVerticesCoords(graph) =>
        \A line \in Creases :
            LET v == executeFoldState(line, "valley")
                m == executeFoldState(line, "mountain")
            IN  /\ v.graph.vertices_coords = m.graph.vertices_coords
                /\ v.graph.faces_flipped = m.graph.faces_flipped
                /\ v.history = m.history

\* a fold was executed, and a further fold would move vertices and toggle
\* a flag
FoldTypeIrrelevantWitness ==
    /\ Folded
    /\ graph # pre.graph
    /\ \E line \in Creases :
          LET m == executeFoldState(line, "mountain")
          IN  /\ m.graph.vertices_coords # graph.vertices_coords
              /\ m.graph.faces_flipped # graph.faces_flipped


\* C19: executeFold leaves the class tags and the vertex-index lists of the
\* faces, and the numbers of vertices and of faces, as they are.
FoldKeepsTopology ==
    [][\A line \in Creases :
          FoldStep(line) =>
             /\ graph'.faces_classes = graph.faces_classes
             /\ graph'.faces_vertices = graph.faces_vertices
             /\ Len(graph'.vertices_coords) = Len(graph.vertices_coords)
             /\ Len(graph'.faces_flipped) = Len(graph.faces_flipped)]_vars

FoldKeepsTopologyWitness ==
    /\ Folded
    /\ graph.vertices_coords # pre.graph.vertices_coords
    /\ graph.faces_flipped # pre.graph.faces_flipped
    /\ graph.faces_classes = InitialMesh.faces_classes
    /\ graph.faces_vertices = InitialMesh.faces_vertices


\* a mesh whose three per-face sequences have one length and whose faces
\* refer to existing vertices only (indices count from 0)
WellFormed(g) ==
    /\ Len(g.faces_classes) = Len(g.faces_flipped)
    /\ Len(g.faces_flipped) = Len(g.faces_vertices)
    /\ \A i \in DOMAIN g.faces_vertices :
          \A j \in DOMAIN g.faces_vertices[i] :
             /\ g.faces_vertices[i][j] >= 0
             /\ g.faces_vertices[i][j] < Len(g.vertices_coords)

\* the puzzle definitions the model loads satisfy the premise of C20
WellFormedPuzzle(data) ==
    /\ Len(data.faces_classes) = Len(data.faces_vertices)
    /\ \A i \in DOMAIN data.faces_vertices :
          \A j \in DOMAIN data.faces_vertices[i] :
             /\ data.faces_vertices[i][j] >= 0
             /\ data.faces_vertices[i][j] < Len(data.vertices_coords)

\* C20: with a well-formed puzzle definition, the live mesh and every mesh
\* in the history are well-formed in every reachable state.
MeshWellFormed ==
    (puzzleData # Null /\ WellFormedPuzzle(puzzleData)) =>
        /\ HasVerticesCoords(graph) => WellFormed(graph)
        /\ \A i \in DOMAIN history :
              HasVerticesCoords(history[i]) => WellFormed(history[i])

MeshWellFormedWitness ==
    /\ outcome.op = "undo"
    /\ Len(history) >= 2
    /\ \A i \in DOMAIN history : HasVerticesCoords(history[i])
    /\ HasVerticesCoords(graph)
    /\ graph.vertices_coords # history[1].vertices_coords
    /\ \E i \in DOMAIN graph.faces_flipped : graph.faces_flipped[i]
    /\ WellFormed(graph)


\* C21: validation answers true only when the topmost face at every
\* occupied position is decorative ("image").  In a puzzle that has not
\* been folded no face lies on another, so every face is topmost and a
\* true answer needs every face to be decorative.
SolvedOnlyWithDecorativeOnTop ==
    (/\ outcome.op = "validateState"
     /\ outcome.result = "true"
     /\ HasVerticesCoords(graph)
     /\ graph = InitialMesh)
        => \A i \in DOMAIN graph.faces_classes : graph.faces_classes[i] = "image"


\* the sheet after the fold along x = 4 and then the fold along y = 4
SheetFoldedTwice ==
    foldGraph(foldGraph(InitialStateOf(PuzzleSheet), SheetFoldX, "valley"),
              SheetFoldY, "valley")

\* the sheet after one of the two folds only
SheetFoldedOnce ==
    {foldGraph(InitialStateOf(PuzzleSheet), line, "valley") : line \in SheetCreases}

\* C22: the sheet of 16 cells validates as solved after the two folds and
\* as unsolved after one of them only.
SheetScenario ==
    (outcome.op = "validateState" /\ puzzleData = PuzzleSheet)
        => /\ graph = SheetFoldedTwice => outcome.result = "true"
           /\ graph \in SheetFoldedOnce => outcome.result = "false"


\* C23: validation changes neither the live mesh nor the history nor the
\* Initial Mesh, so what fold, undo and reset would do next is the same
\* before and after it.
ValidateReadOnly ==
    [][outcome'.op = "validateState"
          => /\ graph' = graph
             /\ history' = history
             /\ initialState' = initialState
             /\ pmInitialState' = pmInitialState
             /\ canUndo' = canUndo
             /\ undoState' = undoState]_vars

ValidateReadOnlyWitness ==
    /\ outcome.op = "validateState"
    /\ outcome.result = "false"
    /\ pre.op = "executeFold"
    /\ Len(history) = MaxHistory
    /\ graph = pre.graph
    /\ history = pre.history
    /\ \E i \in DOMAIN graph.vertices_coords : graph.vertices_coords[i][1] < 0


\* the last call was calculateAffineTransform
AffineCalled == outcome.op = "calculateAffineTransform"

\* twice the signed area of the triangle of the three source points
Cross(src) ==
    (src[2][1] - src[1][1]) * (src[3][2] - src[1][2])
        - (src[3][1] - src[1][1]) * (src[2][2] - src[1][2])

\* the matrix m maps each source point to its destination point: with the
\* entries fractions over m.den, a*x + c*y + e = u and b*x + d*y + f = v
MapsExactly(m, src, dst) ==
    \A i \in 1 .. 3 :
        /\ m.a * src[i][1] + m.c * src[i][2] + m.e = dst[i][1] * m.den
        /\ m.b * src[i][1] + m.d * src[i][2] + m.f = dst[i][2] * m.den

\* C24 as stated: for any three source points not on one line the returned
\* matrix maps each source point to its destination point.
AffineExactNonCollinear ==
    (AffineCalled /\ Cross(outcome.arg.src) # 0)
        => MapsExactly(outcome.result, outcome.arg.src, outcome.arg.dst)

\* C24, amended: the returned matrix maps each source point to its
\* destination point when the source triangle's doubled area is at least
\* 1e-6.
AffineExact ==
    (AffineCalled /\ Abs(Cross(outcome.arg.src)) >= DenEpsilon)
        => MapsExactly(outcome.result, outcome.arg.src, outcome.arg.dst)

AffineExactWitness ==
    /\ AffineCalled
    /\ Abs(Cross(outcome.arg.src)) >= DenEpsilon
    /\ outcome.result # IdentityMatrix
    /\ outcome.result.c # 0
    /\ outcome.result.e # 0
    /\ MapsExactly(outcome.result, outcome.arg.src, outcome.arg.dst)

\* C25: for source points on one line, and for any whose determinant is
\* below 1e-6 in magnitude, calculateAffineTransform returns the identity
\* map whatever the destination points are.
AffineDegenerateIsIdentity ==
    (AffineCalled /\ Abs(Cross(outcome.arg.src)) < DenEpsilon)
        => outcome.result = IdentityMatrix

AffineDegenerateIsIdentityWitness ==
    /\ AffineCalled
    /\ Cross(outcome.arg.src) = 0
    /\ outcome.arg.src[1] # outcome.arg.src[2]
    /\ outcome.arg.src[2] # outcome.arg.src[3]
    /\ outcome.arg.dst[1] # outcome.arg.src[1]
    /\ outcome.result = IdentityMatrix


\* C26: a call that needs the puzzle and comes before a puzzle manager is
\* attached or a puzzle is loaded ends with a MissingCollaborator signal,
\* and no history entry is ever seeded with empty data.
MissingCollaboratorSignalled ==
    /\ (outcome.op = "executeFold" /\ ~puzzleManager)
          => outcome.result = "MissingCollaborator"
    /\ (outcome.op \in {"initialize", "reset"} /\ initialState = Null)
          => outcome.result = "MissingCollaborator"
    /\ \A i \in DOMAIN history : history[i] # EmptyObject


\* the step is a call of a mesh operation: fold, undo, reset or validate
OperationStep ==
    /\ outcome'.op \in {"executeFold", "undo", "reset", "validateState"}
    /\ <<outcome', pre'>> # <<outcome, pre>>

\* the engine is between two operations: not initialized at all, or with
\* the live mesh at the end of its history
Settled ==
    \/ graph = Null /\ history = <<>>
    \/ graph # Null /\ Len(history) >= 1 /\ history[Len(history)] = graph

\* C27: on the page a fold, undo, reset or validate runs only after the
\* puzzle load has settled, starts from a mesh and a history that no other
\* handler is part-way through changing, and leaves them so.
OperationsSerialized ==
    [][OperationStep
          => /\ app.pc = "ready"
             /\ app'.pc = "ready"
             /\ Settled
             /\ Settled']_vars

OperationsSerializedWitness ==
    /\ app.pc = "ready"
    /\ outcome.op = "undo"
    /\ pre.op = "executeFold"
    /\ puzzleData # Null
    /\ Len(history) = 2
    /\ Len(pre.history) = 3
    /\ Settled


\* C28: a non-degenerate fold leaves no vertex farther than epsilon on the
\* moving side of its crease line, so the same fold made again at once
\* changes no coordinate and no flag, and still appends a history entry.
RepeatedFoldMovesNothing ==
    [][\A line \in ProperCreases :
          /\ FoldStep(line)
                => \A i \in DOMAIN graph'.vertices_coords :
                      ~FartherThanEpsilon(graph'.vertices_coords[i], line)
          /\ (Folded /\ outcome.arg = line /\ FoldStep(line))
                => /\ graph'.vertices_coords = graph.vertices_coords
                   /\ graph'.faces_flipped = graph.faces_flipped
                   /\ Len(history') = Len(history) + 1
                   /\ history'[Len(history')] = graph]_vars

RepeatedFoldMovesNothingWitness ==
    /\ Folded
    /\ pre.op = "executeFold"
    /\ outcome.arg \in ProperCreases
    /\ Len(history) = 3
    /\ HasVerticesCoords(history[1])
    /\ history[2] = foldGraph(history[1], outcome.arg, "valley")
    /\ history[2].vertices_coords # history[1].vertices_coords
    /\ history[2].faces_flipped # history[1].faces_flipped
    /\ history[3] = history[2]
    /\ graph = pre.graph

\* the side of the line p1 -> p2 the point v is on: the product of v - p1
\* with the normal (-(p2.y - p1.y), p2.x - p1.x)
SideNum(v, line) ==
    (v[1] - line.p1[1]) * (-(line.p2[2] - line.p1[2]))
        + (v[2] - line.p1[2]) * (line.p2[1] - line.p1[1])

\* v is farther than epsilon from the line, on either side
FarFromLine(v, line) ==
    \/ Abs(DistNum(v, line)) >= 2 * Epsilon
    \/ DistNum(v, line) * DistNum(v, line) > Epsilon * Epsilon * LenSq(line)

Reversed(line) == Line(line.p2, line.p1)

\* C29: the vertices a fold moves are on the side of the normal
\* (-(p2.y - p1.y), p2.x - p1.x); the line taken from p2 to p1 moves a
\* disjoint set, and the two sets together are the vertices farther than
\* epsilon from the line.
ActiveSideByOrientation ==
    HasVerticesCoords(graph) =>
        \A line \in ProperCreases :
            LET there == verticesToMove(graph, line)
                back  == verticesToMove(graph, Reversed(line))
            IN  /\ \A i \in there : SideNum(graph.vertices_coords[i + 1], line) > 0
                /\ \A i \in back : SideNum(graph.vertices_coords[i + 1], line) < 0
                /\ there \cap back = {}
                /\ there \cup back =
                      {i - 1 : i \in {j \in DOMAIN graph.vertices_coords :
                                         FarFromLine(graph.vertices_coords[j], line)}}

ActiveSideByOrientationWitness ==
    /\ Folded
    /\ outcome.arg = Line(<<One - 1, One>>, <<One - 1, 0>>)
    /\ HasVerticesCoords(pre.graph)
    /\ verticesToMove(pre.graph, Reversed(outcome.arg)) # {}
    /\ \E i \in DOMAIN pre.graph.vertices_coords :
          ~FarFromLine(pre.graph.vertices_coords[i], outcome.arg)
    /\ \A i \in DOMAIN graph.vertices_coords :
          graph.vertices_coords[i] # pre.graph.vertices_coords[i]
             <=> (i - 1) \in verticesToMove(pre.graph, outcome.arg)
    /\ \E i \in DOMAIN graph.vertices_coords :
          graph.vertices_coords[i] # pre.graph.vertices_coords[i]


\* any two vertices of g are less than 1.1 apart in x and in y
BoxFits(g) ==
    \A i, j \in DOMAIN g.vertices_coords :
        /\ 10 * (g.vertices_coords[i][1] - g.vertices_coords[j][1]) < 11 * One
        /\ 10 * (g.vertices_coords[i][2] - g.vertices_coords[j][2]) < 11 * One

\* C30: validateState answers true exactly when the bounding box of the
\* vertices is less than 1.1 wide and high, whatever the classes and the
\* flipped flags of the faces are and however many folds were made.
ValidateByBoundingBox ==
    (outcome.op = "validateState" /\ HasVerticesCoords(graph))
        => /\ outcome.result = "true" <=> BoxFits(graph)
           /\ outcome.result = "false" <=> ~BoxFits(graph)
           /\ \A flags \in [DOMAIN graph.faces_flipped -> BOOLEAN],
                 classes \in [DOMAIN graph.faces_classes -> {"image", "color"}] :
                 validateState([graph EXCEPT !.faces_flipped = flags,
                                             !.faces_classes = classes])
                    = validateState(graph)

ValidateByBoundingBoxWitness ==
    /\ outcome.op = "validateState"
    /\ outcome.result = "true"
    /\ HasVerticesCoords(graph)
    /\ Len(history) = 1
    /\ graph = InitialMesh
    /\ \E i \in DOMAIN graph.faces_classes : graph.faces_classes[i] = "color"


\* the step is a call of executeFold
ExecuteStep ==
    /\ outcome'.op = "executeFold"
    /\ <<outcome', pre'>> # <<outcome, pre>>

\* C31: on the page the proposed fold is null or has two different points;
\* executeFold is called with the proposed fold only, which is then not
\* null, and the proposed fold is cleared by the call, so it is executed
\* once at most.
ProposedFoldProper ==
    /\ [](app.proposedFold # Null => app.proposedFold.p1 # app.proposedFold.p2)
    /\ [][ExecuteStep
             => /\ app.proposedFold # Null
                /\ outcome'.arg = app.proposedFold
                /\ outcome'.arg.p1 # outcome'.arg.p2
                /\ app'.proposedFold = Null
                /\ app'.executeDisabled]_vars

ProposedFoldProperWitness ==
    /\ outcome.op = "executeFold"
    /\ outcome.result = "undefined"
    /\ Len(history) = Len(pre.history) + 1
    /\ outcome.arg.p1 # outcome.arg.p2
    /\ app.proposedFold = Null
    /\ app.executeDisabled
    /\ pre.op = "executeFold"


\* C32: once the page has handled the load, an execute, an undo or a reset,
\* the Undo button is disabled exactly when canUndo() is false.
UndoButtonTracksCanUndo ==
    (/\ app.pc = "ready"
     /\ outcome.op \in {"initialize", "executeFold", "undo", "reset"})
        => (app.undoDisabled <=> ~canUndo)


====
